---------------------------- MODULE Spec2Model ----------------------------
(***************************************************************************)
(* A model of File Merger Pro's universal PDF merge                        *)
(* (core/universal_processor.py), of the classification helpers in         *)
(* config.py and of the text reader, the consistency check and safe_write  *)
(* in core/file_manager.py.  Each operation has a specification of its     *)
(* own: Spec (one merge), SpecText (the text paginator), SpecDispatch      *)
(* (classification and dispatch of one input), SpecSheet (the tabular      *)
(* renderer), SpecRuns (two merges at once), SpecWrite (safe_write).       *)
(*                                                                         *)
(* A string is a sequence of one-character strings; a page is a record     *)
(* that remembers which input produced it.  Lengths measured in points     *)
(* are kept in hundredths of a point, so that reportlab's A4 height        *)
(* (841.8897...) and every y the code compares are integers.               *)
(***************************************************************************)
EXTENDS Integers, Sequences, FiniteSets, TLC

VARIABLES
    filepaths,      \* merge_all_to_pdf: the input list (items with their state on disk)
    HAS_OPENPYXL,   \* module flag set by the optional import
    errorPageFails, \* environment: building an error page raises
    pc,             \* position in merge_all_to_pdf
    idx,            \* 1-based position of the for loop
    writer,         \* PdfWriter: the accumulated pages
    success_count,
    result,         \* the returned tuple
    dest,           \* the file at output_path
    destOpens,      \* times output_path was opened for writing
    textIn,         \* _text_to_pdf_pages on its own: the content read
    textLines,      \* ... lines = content.split('\n')
    textLineNo,     \* ... the 1-based position of "for line in lines"
    textCanvas,     \* ... the canvas c with its text object and current_line
    textOut,        \* ... the pages added to the writer
    textPc,         \* ... position in _text_to_pdf_pages
    dispItem,       \* one input on its way through classification and dispatch
    dispTwin,       \* ... a second path handed to the consistency check with it
    dispTypes,      \* ... the tuple check_file_types_consistency returned
    dispCategory,   \* ... category = get_file_category(fpath) in merge_all_to_pdf
    dispEffect,     \* ... what the renderer chosen for it did
    dispPc,         \* ... position: "check", "dispatch", "done"
    sheetIn,        \* _office_to_pdf_pages on its own: the workbook that was loaded
    sheetNo,        \* ... the 1-based position of "for sheet in wb.sheetnames"
    sheetRowNo,     \* ... the 1-based position of "for row in ws.iter_rows"
    sheetCanvas,    \* ... the canvas c and the cursor y
    sheetOut,       \* ... the pages added to the writer
    sheetPc,        \* ... position: "header", "rows", "done"
    runs,           \* two calls of merge_all_to_pdf at once: the locals and the
                    \* destination of each
    swPath,         \* FileManager.safe_write: the file at output_path
    swPrev,         \* ... the file that was there when the call began
    swContent,      \* ... the content argument: its type and its data
    swBackup,       \* ... the file at the backup path
    swLog,          \* ... the records sent to the logger
    swResult,       \* ... the returned tuple
    swPc,           \* ... position: "mkdir", "backup", "write", "done"
    guiHeap,        \* GUIApp: the list objects made so far, by identity
    guiFiles,       \* ... self.files: the list object it names
    guiWin,         \* ... the options window that is open: "none", "image", "text"
    thrPc,          \* the background thread: "none", "running", "done"
    thrFiles,       \* ... options['files']: the list object it was given
    thrPos,         \* ... the 1-based position of its "for f in files"
    thrSeen,        \* ... the files it has processed, in order
    thrGiven,       \* ... what its list held when the thread was started
    cliFiles,       \* CLI: self.files
    cliCalled       \* ... what the last menu command ended in

vars == << filepaths, HAS_OPENPYXL, errorPageFails, pc, idx, writer,
           success_count, result, dest, destOpens,
           textIn, textLines, textLineNo, textCanvas, textOut, textPc,
           dispItem, dispTwin, dispTypes, dispCategory, dispEffect, dispPc,
           sheetIn, sheetNo, sheetRowNo, sheetCanvas, sheetOut, sheetPc,
           runs, swPath, swPrev, swContent, swBackup, swLog, swResult, swPc,
           guiHeap, guiFiles, guiWin, thrPc, thrFiles, thrPos, thrSeen, thrGiven,
           cliFiles, cliCalled >>

mergeVars == << filepaths, HAS_OPENPYXL, errorPageFails, pc, idx, writer,
                success_count, result, dest, destOpens >>

textVars == << textIn, textLines, textLineNo, textCanvas, textOut, textPc >>

dispVars == << dispItem, dispTwin, dispTypes, dispCategory, dispEffect, dispPc >>

\* what the steps of one operation leave alone: the variables of the others
sheetVars == << sheetIn, sheetNo, sheetRowNo, sheetCanvas, sheetOut, sheetPc >>

swVars == << swPath, swPrev, swContent, swBackup, swLog, swResult, swPc >>

guiVars == << guiHeap, guiFiles, guiWin, thrPc, thrFiles, thrPos, thrSeen,
             thrGiven >>

cliVars == << cliFiles, cliCalled >>

besideMerge == << textVars, dispVars, sheetVars, runs, swVars, guiVars, cliVars >>
besideText == << mergeVars, dispVars, sheetVars, runs, swVars, guiVars, cliVars >>
besideDisp == << mergeVars, textVars, sheetVars, runs, swVars, guiVars, cliVars >>
besideSheet == << mergeVars, textVars, dispVars, runs, swVars, guiVars, cliVars >>
besideRuns == << mergeVars, textVars, dispVars, sheetVars, swVars, guiVars, cliVars >>
besideWrite == << mergeVars, textVars, dispVars, sheetVars, runs, guiVars, cliVars >>
besideGui == << mergeVars, textVars, dispVars, sheetVars, runs, swVars, cliVars >>
besideCli == << mergeVars, textVars, dispVars, sheetVars, runs, swVars, guiVars >>

(***************************************************************************)
(* Bounds of the model.                                                    *)
(***************************************************************************)
MaxFiles == 2       \* inputs of one run
MaxPdfPages == 2    \* pages of an existing PDF input
MaxK == 2           \* text inputs hold up to MaxK * max_lines + 1 lines
MaxSheets == 2      \* sheets of a workbook
MaxLists == 2       \* list objects the GUI makes in one session

(***************************************************************************)
(* Strings.                                                                *)
(***************************************************************************)
UpperLetters ==
    << "A","B","C","D","E","F","G","H","I","J","K","L","M",
       "N","O","P","Q","R","S","T","U","V","W","X","Y","Z" >>

LowerLetters ==
    << "a","b","c","d","e","f","g","h","i","j","k","l","m",
       "n","o","p","q","r","s","t","u","v","w","x","y","z" >>

LowerChar(c) ==
    IF \E i \in 1..26 : UpperLetters[i] = c
    THEN LowerLetters[CHOOSE i \in 1..26 : UpperLetters[i] = c]
    ELSE c

\* str.lower()
Lower(s) == [i \in 1..Len(s) |-> LowerChar(s[i])]

\* str.endswith(suffix)
EndsWith(s, suffix) ==
    /\ Len(s) >= Len(suffix)
    /\ SubSeq(s, Len(s) - Len(suffix) + 1, Len(s)) = suffix

\* str.endswith((a, b))
EndsWithAny(s, suffixes) == \E x \in suffixes : EndsWith(s, x)

\* pathlib: the suffix of a file name, "" unless a dot lies strictly inside it
Suffix(name) ==
    LET dots == { i \in 1..Len(name) : name[i] = "." }
    IN  IF dots = {} THEN << >>
        ELSE LET i == CHOOSE d \in dots : \A e \in dots : e <= d
             IN  IF 1 < i /\ i < Len(name) THEN SubSeq(name, i, Len(name))
                 ELSE << >>

SUPPORTED_IMAGE_FORMATS ==
    { <<".","p","n","g">>, <<".","j","p","g">>, <<".","j","p","e","g">>, <<".","b","m","p">>,
      <<".","g","i","f">>, <<".","t","i","f","f">>, <<".","t","i","f">>,
      <<".","w","e","b","p">>, <<".","i","c","o">> }

SUPPORTED_TEXT_FORMATS ==
    { <<".","t","x","t">>, <<".","m","d">>, <<".","c","s","v">>, <<".","j","s","o","n">>,
      <<".","x","m","l">>, <<".","l","o","g">>, <<".","i","n","i">>, <<".","y","a","m","l">>,
      <<".","y","m","l">>, <<".","h","t","m","l">>, <<".","h","t","m">>, <<".","c","s","s">>,
      <<".","j","s">>, <<".","p","h","p">>, <<".","a","s","p">>, <<".","j","s","x">>,
      <<".","t","s">>, <<".","p","y">>, <<".","j","a","v","a">>, <<".","c">>,
      <<".","c","p","p">>, <<".","h">>, <<".","c","s">>, <<".","g","o">>, <<".","r","s">>,
      <<".","s","h">>, <<".","b","a","t">>, <<".","s","q","l">> }

SUPPORTED_DOCUMENT_FORMATS ==
    { <<".","p","d","f">>, <<".","d","o","c","x">>, <<".","d","o","c">>, <<".","o","d","t">> }

SUPPORTED_OFFICE_FORMATS ==
    { <<".","x","l","s","x">>, <<".","x","l","s">>, <<".","p","p","t","x">>,
      <<".","p","p","t">> }

SUPPORTED_BINARY_FORMATS ==
    { <<".","e","x","e">>, <<".","m","s","i">>, <<".","b","i","n">>, <<".","d","l","l">>,
      <<".","z","i","p">>, <<".","r","a","r">>, <<".","7","z">>, <<".","t","a","r">>,
      <<".","g","z">> }

ALL_SUPPORTED_FORMATS ==
    SUPPORTED_IMAGE_FORMATS \cup SUPPORTED_TEXT_FORMATS \cup SUPPORTED_DOCUMENT_FORMATS
        \cup SUPPORTED_OFFICE_FORMATS \cup SUPPORTED_BINARY_FORMATS

\* config.is_supported_file
is_supported_file(filepath) == Lower(Suffix(filepath)) \in ALL_SUPPORTED_FORMATS

\* a faulty get_file_category: the suffix is looked up as it is written
get_file_category_as_written(filepath) ==
    LET ext == Suffix(filepath)
    IN  IF ext \in SUPPORTED_IMAGE_FORMATS THEN "image"
        ELSE IF ext \in SUPPORTED_TEXT_FORMATS THEN "text"
        ELSE IF ext \in SUPPORTED_DOCUMENT_FORMATS THEN "document"
        ELSE IF ext \in SUPPORTED_OFFICE_FORMATS THEN "office"
        ELSE IF ext \in SUPPORTED_BINARY_FORMATS THEN "binary"
        ELSE "unknown"

\* config.get_file_category
get_file_category(filepath) ==
    LET ext == Lower(Suffix(filepath))
    IN  IF ext \in SUPPORTED_IMAGE_FORMATS THEN "image"
        ELSE IF ext \in SUPPORTED_TEXT_FORMATS THEN "text"
        ELSE IF ext \in SUPPORTED_DOCUMENT_FORMATS THEN "document"
        ELSE IF ext \in SUPPORTED_OFFICE_FORMATS THEN "office"
        ELSE IF ext \in SUPPORTED_BINARY_FORMATS THEN "binary"
        ELSE "unknown"

\* the values get_file_category returns
Categories == { "image", "text", "document", "office", "binary", "unknown" }

\* FileManager.check_file_types_consistency: (True, the common category) or
\* (True, 'mixed'); (False, 'unknown') for an empty list
check_file_types_consistency(paths) ==
    IF paths = << >> THEN [ok |-> FALSE, category |-> "unknown"]
    ELSE LET first_cat == get_file_category(paths[1])
             is_consistent ==
                 \A k \in 2..Len(paths) : get_file_category(paths[k]) = first_cat
         IN  IF is_consistent THEN [ok |-> TRUE, category |-> first_cat]
             ELSE [ok |-> TRUE, category |-> "mixed"]

(***************************************************************************)
(* FileManager.safe_write.                                                 *)
(***************************************************************************)
\* a file on disk: whether it is there, and what it holds
OnDisk(exists, content) == [exists |-> exists, content |-> content]

\* a faulty BackupWanted: the existing file is never copied
BackupNever(file) == FALSE

\* "if path.exists():"
BackupWanted(file) == file.exists

\* shutil.copy2(path, backup) ran to its end
BackedUp(file) == OnDisk(TRUE, file.content)

\* shutil.copy2 raised OSError after it had created the backup file
BackupCut(file) == OnDisk(TRUE, "partial")

\* isinstance(content, bytes) or isinstance(content, str)
Writable(content) == content.type \in { "bytes", "str" }

(***************************************************************************)
(* _text_to_pdf_pages: the text paginator.                                 *)
(***************************************************************************)
max_lines == 55
chars_per_line == 90
font_size == 10     \* text_obj.setFont("Courier", 10)

\* the capacity of a page and of a line as the paginator takes them for a
\* text object of a given font size: the literals, whatever the size
LinesPerPage(size) == max_lines
CharsPerLine(size) == chars_per_line

NL == "\n"
CR == "\r"
TAB == "\t"

\* content.split('\n')
Split(content) ==
    LET brk == { i \in 1..Len(content) : content[i] = NL }
        n == Cardinality(brk)
        \* position of the k-th newline; 0 before the first, Len + 1 after the last
        At(k) == IF k = 0 THEN 0
                 ELSE IF k = n + 1 THEN Len(content) + 1
                 ELSE CHOOSE p \in brk : Cardinality({ q \in brk : q < p }) = k - 1
    IN  [k \in 1..(n + 1) |-> SubSeq(content, At(k - 1) + 1, At(k) - 1)]

\* line.replace('\r', '').replace('\t', '    '): every carriage return goes,
\* every tab becomes four spaces, every other character stays
Sanitize(line) ==
    LET special == { k \in 1..Len(line) : line[k] \in { CR, TAB } }
        \* the length of the result for the first i characters
        End(i) == i - Cardinality({ k \in special : k <= i /\ line[k] = CR })
                    + 3 * Cardinality({ k \in special : k <= i /\ line[k] = TAB })
        \* the character of the line that gave the j-th character of the result
        Src(j) == CHOOSE i \in 1..Len(line) : End(i - 1) < j /\ j <= End(i)
    IN  IF special = {} THEN line
        ELSE [j \in 1..End(Len(line)) |->
                 IF line[Src(j)] = TAB THEN " " ELSE line[Src(j)]]

\* a faulty Chunks: only the whole chunks, the rest of the line is lost
ChunksWithoutRest(safe_line) ==
    [k \in 1..(Len(safe_line) \div chars_per_line) |->
        SubSeq(safe_line, (k - 1) * chars_per_line + 1, k * chars_per_line)]

\* [safe_line[i:i+chars_per_line] for i in range(0, len(safe_line), chars_per_line)] or [""]
Chunks(safe_line) ==
    LET len == Len(safe_line)
        n == (len + chars_per_line - 1) \div chars_per_line
        Min(a, b) == IF a < b THEN a ELSE b
    IN  IF len = 0 THEN << << >> >>
        ELSE [k \in 1..n |->
                 SubSeq(safe_line, (k - 1) * chars_per_line + 1,
                        Min(k * chars_per_line, len))]

\* a page of the canvas: its header ("(Cont.)" or not) and the lines of its text object
TextPage(cont, lines) == [kind |-> "text", cont |-> cont, lines |-> lines]

\* "New Page if full": the test made after every logical line
PageFull(current_line) == current_line >= max_lines

\* the canvas before the loop: no page shown, the first page open under its
\* header, current_line = 0
TextStart == [shown |-> << >>, open |-> << >>, cont |-> FALSE, current_line |-> 0]

\* a faulty TextLineStep: the page opened after a full one gets the header
\* of the first page again
TextLineStepPlainHeader(cv, line) ==
    LET chunks == Chunks(Sanitize(line))
        drawn == cv.open \o chunks
        count == cv.current_line + Len(chunks)
    IN  IF PageFull(count)
        THEN [shown |-> Append(cv.shown, TextPage(cv.cont, drawn)),
              open |-> << >>, cont |-> cv.cont, current_line |-> 0]
        ELSE [shown |-> cv.shown, open |-> drawn, cont |-> cv.cont,
              current_line |-> count]

\* the body of "for line in lines": the chunks of the line are drawn and
\* counted, then a full page is shown and a continuation page is opened
TextLineStep(cv, line) ==
    LET chunks == Chunks(Sanitize(line))
        drawn == cv.open \o chunks
        count == cv.current_line + Len(chunks)
    IN  IF PageFull(count)
        THEN [shown |-> Append(cv.shown, TextPage(cv.cont, drawn)),
              open |-> << >>, cont |-> TRUE, current_line |-> 0]
        ELSE [shown |-> cv.shown, open |-> drawn, cont |-> cv.cont,
              current_line |-> count]

\* a faulty TextFinish: the open page is not shown at the end
TextFinishShownOnly(cv) == cv.shown

\* after the loop: c.drawText(text_obj); c.showPage(); c.save()
TextFinish(cv) == Append(cv.shown, TextPage(cv.cont, cv.open))

\* the whole loop, from line i on
RECURSIVE TextLoop(_, _, _)
TextLoop(lines, i, cv) ==
    IF i > Len(lines) THEN cv
    ELSE TextLoop(lines, i + 1, TextLineStep(cv, lines[i]))

\* the pages of the canvas for a content
TextCanvasPages(content) == TextFinish(TextLoop(Split(content), 1, TextStart))

\* FileManager.read_file_safe: (content, None) or (None, error)
read_file_safe(item) ==
    IF item.readable THEN [content |-> item.content, error |-> "none", none |-> FALSE]
    ELSE [content |-> << >>, error |-> "read error", none |-> TRUE]

\* a faulty TextToPdfPages: no "if not content: return", the canvas is always drawn
TextToPdfPagesUnguarded(item) == TextCanvasPages(read_file_safe(item).content)

\* _text_to_pdf_pages: the pages it adds to the writer ("if not content: return")
TextToPdfPages(item) ==
    LET r == read_file_safe(item)
    IN  IF r.none \/ r.content = << >> THEN << >>
        ELSE TextCanvasPages(r.content)

(***************************************************************************)
(* The inputs: a file path together with what the file holds on disk.      *)
(*   readable  the file opens and parses (PdfReader, ImageReader,          *)
(*             read_file_safe, openpyxl.load_workbook)                     *)
(*   npages    the pages of an existing PDF                                *)
(*   badPage   the page of that PDF whose add_page raises (0: none)        *)
(*   content   the text read from a text file                              *)
(*   sheets    a workbook: for each sheet, the length of each row's text   *)
(*   size      os.path.getsize, -1 when it raises OSError                  *)
(***************************************************************************)
Item(path, readable, npages, badPage, content, sheets, size) ==
    [path |-> path, readable |-> readable, npages |-> npages, badPage |-> badPage,
     content |-> content, sheets |-> sheets, size |-> size]

\* Path(filepath).name of the inputs: a one-letter stem and an extension
Named(ext) == << "f" >> \o ext

(***************************************************************************)
(* Single-page renderers.                                                  *)
(***************************************************************************)
\* what a renderer did to the writer: the pages it added, and whether it raised
Effect(pages, raised) == [pages |-> pages, raised |-> raised]

MiB == 1048576

\* _binary_to_pdf_pages, "Calculate Size"
SizeUnit(item) ==
    IF item.size < 0 THEN "Unknown"
    ELSE IF item.size > MiB THEN "MB"
    ELSE "KB"

\* a faulty BinaryToPdfPages: the OSError of os.path.getsize is not caught
BinaryToPdfPagesStatRaises(item) ==
    IF item.size < 0 THEN Effect(<< >>, TRUE)
    ELSE Effect(<< [kind |-> "card", name |-> item.path, unit |-> SizeUnit(item),
                    format |-> Suffix(item.path)] >>, FALSE)

\* _binary_to_pdf_pages: the file info card
BinaryToPdfPages(item) ==
    Effect(<< [kind |-> "card", name |-> item.path, unit |-> SizeUnit(item),
               format |-> Suffix(item.path)] >>, FALSE)

\* a faulty ImageToPdfPages: the page is added once by the canvas and once more
\* from the packet
ImageToPdfPagesTwice(item) ==
    IF item.readable
    THEN Effect(<< [kind |-> "image", name |-> item.path],
                   [kind |-> "image", name |-> item.path] >>, FALSE)
    ELSE Effect(<< >>, TRUE)

\* _image_to_pdf_pages: ImageReader raises on a file it cannot decode
ImageToPdfPages(item) ==
    IF item.readable
    THEN Effect(<< [kind |-> "image", name |-> item.path] >>, FALSE)
    ELSE Effect(<< >>, TRUE)

\* _create_error_page
CreateErrorPage(item, fails) ==
    IF fails THEN Effect(<< >>, TRUE)
    ELSE Effect(<< [kind |-> "error", name |-> item.path] >>, FALSE)

\* _append_pdf: PdfReader raises on a corrupt file; add_page is called page by
\* page, so the pages before a page that raises are already in the writer
AppendPdf(item) ==
    LET PdfPage(k) == [kind |-> "pdf", name |-> item.path, no |-> k]
    IN  IF ~item.readable THEN Effect(<< >>, TRUE)
        ELSE IF item.badPage = 0
        THEN Effect([k \in 1..item.npages |-> PdfPage(k)], FALSE)
        ELSE Effect([k \in 1..(item.badPage - 1) |-> PdfPage(k)], TRUE)

\* _text_to_pdf_pages
TextToPdf(item) ==
    LET pages == TextToPdfPages(item)
    IN  Effect([k \in 1..Len(pages) |->
                   [kind |-> "text", name |-> item.path, cont |-> pages[k].cont,
                    lines |-> pages[k].lines]], FALSE)

(***************************************************************************)
(* _office_to_pdf_pages: workbooks as text tables.  Lengths in hundredths  *)
(* of a point.                                                             *)
(***************************************************************************)
A4Height == 84189       \* reportlab.lib.pagesizes.A4[1] = 841.8897...
A4Width == 59528        \* reportlab.lib.pagesizes.A4[0] = 595.2755...
TopOffset == 4000       \* y = height - 40
HeaderStep == 2500      \* y -= 25
RowStep == 1200         \* y -= 12
RowFloor == 4000        \* if y < 40
SheetGap == 2000        \* y -= 20
SheetFloor == 6000      \* if y < 60
RowBudget == 110        \* if len(row_text) > 110
RowCut == 107           \* row_text[:107] + "..."
EllipsisLen == 3

\* the character budget of a row on a page of a given width: the literal,
\* whatever the width
RowBudgetAt(width) == RowBudget

\* "Simple truncation to prevent overflow": the length of the text drawn
DrawnRowLen(len) == IF len > RowBudget THEN RowCut + EllipsisLen ELSE len

\* c.showPage(): the open page is emitted and the page's code is reset
ShowPage(cv) ==
    [shown |-> Append(cv.shown, cv.open), open |-> << >>, dirty |-> FALSE, y |-> cv.y]

\* the canvas before the loop over the sheets: y = height - 40
OfficeStart ==
    [shown |-> << >>, open |-> << >>, dirty |-> FALSE, y |-> A4Height - TopOffset]

\* "Sheet Header": drawString at y, y -= 25, setFont
DrawHeader(cv, s) ==
    [cv EXCEPT !.open = Append(@, [what |-> "header", sheet |-> s, row |-> 0,
                                   y |-> cv.y, len |-> 0]),
               !.dirty = TRUE,
               !.y = @ - HeaderStep]

\* the body of the loop over the rows: the row is drawn at y, y -= 12, and
\* below 40 the page is shown, y reset and the font set (which writes to the
\* new page's code)
DrawRow(cv, s, r, len) ==
    LET drawn == [cv EXCEPT
                     !.open = Append(@, [what |-> "row", sheet |-> s, row |-> r,
                                         y |-> cv.y, len |-> DrawnRowLen(len)]),
                     !.dirty = TRUE,
                     !.y = @ - RowStep]
    IN  IF drawn.y < RowFloor
        THEN [ShowPage(drawn) EXCEPT !.y = A4Height - TopOffset, !.dirty = TRUE]
        ELSE drawn

\* a faulty SheetSpacer: the page is always shown after a sheet
SheetSpacerForced(cv) == [ShowPage(cv) EXCEPT !.y = A4Height - TopOffset]

\* "Spacer between sheets": y -= 20, and below 60 the page is shown and y reset
SheetSpacer(cv) ==
    LET spaced == [cv EXCEPT !.y = @ - SheetGap]
    IN  IF spaced.y < SheetFloor
        THEN [ShowPage(spaced) EXCEPT !.y = A4Height - TopOffset]
        ELSE spaced

\* c.save(): the open page is shown when it has code
CanvasSave(cv) == IF cv.dirty THEN Append(cv.shown, cv.open) ELSE cv.shown

\* the for loop over the rows of sheet s, from row r on
RECURSIVE RowLoop(_, _, _, _)
RowLoop(rows, s, r, cv) ==
    IF r > Len(rows) THEN cv
    ELSE RowLoop(rows, s, r + 1, DrawRow(cv, s, r, rows[r]))

\* the for loop over the sheets, from sheet s on
RECURSIVE SheetLoop(_, _, _)
SheetLoop(sheets, s, cv) ==
    IF s > Len(sheets) THEN cv
    ELSE SheetLoop(sheets, s + 1,
                   SheetSpacer(RowLoop(sheets[s], s, 1, DrawHeader(cv, s))))

\* the pages of the canvas after c.save()
OfficeCanvasPages(sheets) == CanvasSave(SheetLoop(sheets, 1, OfficeStart))

ExcelSuffixes == { <<".","x","l","s","x">>, <<".","x","l","s">> }

\* _office_to_pdf_pages: its own except clause turns a failure into an error
\* page and returns normally
OfficeToPdfPages(item, hasOpenpyxl, errFails) ==
    IF ~hasOpenpyxl /\ EndsWithAny(item.path, ExcelSuffixes)
    THEN CreateErrorPage(item, errFails)
    ELSE IF EndsWithAny(item.path, ExcelSuffixes)
    THEN IF item.readable
         THEN LET pages == OfficeCanvasPages(item.sheets)
              IN  Effect([k \in 1..Len(pages) |->
                             [kind |-> "sheet", name |-> item.path,
                              draws |-> pages[k]]], FALSE)
         ELSE CreateErrorPage(item, errFails)
    ELSE BinaryToPdfPages(item)

(***************************************************************************)
(* merge_all_to_pdf.                                                       *)
(***************************************************************************)
PdfSuffix == <<".","p","d","f">>

\* the if / elif chain of the per-item try block
Render(item, hasOpenpyxl, errFails) ==
    LET category == get_file_category(item.path)
    IN  IF category = "document" /\ EndsWith(Lower(item.path), PdfSuffix)
        THEN AppendPdf(item)
        ELSE IF category = "image" THEN ImageToPdfPages(item)
        ELSE IF category = "text" THEN TextToPdf(item)
        ELSE IF category = "office" THEN OfficeToPdfPages(item, hasOpenpyxl, errFails)
        ELSE IF category = "binary" THEN BinaryToPdfPages(item)
        ELSE BinaryToPdfPages(item)

\* one iteration of the for loop: the try block and its except clause.
\*   pages   what the writer gained
\*   counted whether success_count was incremented
\*   raised  whether an exception left the iteration (raised by _create_error_page)
ItemStep(item, hasOpenpyxl, errFails) ==
    LET eff == Render(item, hasOpenpyxl, errFails)
    IN  IF ~eff.raised
        THEN [pages |-> eff.pages, counted |-> TRUE, raised |-> FALSE]
        ELSE LET err == CreateErrorPage(item, errFails)
             IN  [pages |-> eff.pages \o err.pages, counted |-> FALSE,
                  raised |-> err.raised]

\* a faulty AddPages: the pages of an input go in front of the pages already there
AddPagesInFront(w, pages, src) ==
    [k \in 1..Len(pages) |-> [src |-> src, n |-> k, page |-> pages[k]]] \o w

\* writer.add_page for each page of a list; a page remembers the input it came
\* from (src) and its position among that input's pages (n)
AddPages(w, pages, src) ==
    w \o [k \in 1..Len(pages) |-> [src |-> src, n |-> k, page |-> pages[k]]]

\* a faulty MoreInputs: the loop stops one input early
MoreInputsButLast(i, files) == i < Len(files)

\* the for loop has an input left
MoreInputs(i, files) == i <= Len(files)

Returned(ok, merged, reason) == [ok |-> ok, merged |-> merged, reason |-> reason]

NotReturned == Returned(FALSE, 0, "running")

\* the file at output_path
File(state, pages) == [state |-> state, pages |-> pages]

\* open(output_path, "wb") creates the file or truncates the one there
OpenedForWrite(file) == File("empty", << >>)

\* writer.write(out_f) stopped by an I/O error: part of the bytes are in the file
WriteInterrupted(file, w) == File("partial", << >>)

\* writer.write(out_f) ran to its end
Written(file, w) == File("complete", w)

ProcessItem ==
    /\ pc = "loop"
    /\ MoreInputs(idx, filepaths)
    /\ LET step == ItemStep(filepaths[idx], HAS_OPENPYXL, errorPageFails)
       IN  /\ writer' = AddPages(writer, step.pages, idx)
           /\ success_count' = IF step.counted THEN success_count + 1
                               ELSE success_count
           /\ IF step.raised
              THEN /\ pc' = "done"
                   /\ idx' = idx
                   /\ result' = Returned(FALSE, 0, "item error")
              ELSE /\ pc' = "loop"
                   /\ idx' = idx + 1
                   /\ result' = result
    /\ UNCHANGED << filepaths, HAS_OPENPYXL, errorPageFails, dest, destOpens >>
    /\ UNCHANGED besideMerge

\* "with open(output_path, "wb") as out_f": it raises, or the file is there and empty
OpenDest ==
    /\ pc = "loop"
    /\ ~MoreInputs(idx, filepaths)
    /\ \E opened \in BOOLEAN :
          IF opened
          THEN /\ dest' = OpenedForWrite(dest)
               /\ destOpens' = destOpens + 1
               /\ pc' = "write"
               /\ result' = result
          ELSE /\ dest' = dest
               /\ destOpens' = destOpens
               /\ pc' = "done"
               /\ result' = Returned(FALSE, 0, "io error")
    /\ UNCHANGED << filepaths, HAS_OPENPYXL, errorPageFails, idx, writer,
                    success_count >>
    /\ UNCHANGED besideMerge

\* "writer.write(out_f)" and the return that follows it
WriteDest ==
    /\ pc = "write"
    /\ \E written \in BOOLEAN :
          IF written
          THEN /\ dest' = Written(dest, writer)
               /\ result' = Returned(TRUE, success_count, "none")
          ELSE /\ dest' = WriteInterrupted(dest, writer)
               /\ result' = Returned(FALSE, 0, "io error")
    /\ pc' = "done"
    /\ UNCHANGED << filepaths, HAS_OPENPYXL, errorPageFails, idx, writer,
                    success_count, destOpens >>
    /\ UNCHANGED besideMerge

(***************************************************************************)
(* The inputs of the runs checked.                                         *)
(***************************************************************************)
Rep(c, n) == [i \in 1..n |-> c]

\* n lines of len letters each, joined by newlines
Uniform(n, len) ==
    [i \in 1..(n * (len + 1) - 1) |-> IF i % (len + 1) = 0 THEN NL ELSE "a"]

\* PDFs: corrupt, empty, whole, and with a last page that add_page rejects
PdfItems ==
    { Item(Named(PdfSuffix), FALSE, 0, 0, << >>, << >>, 0),
      Item(Named(PdfSuffix), TRUE, 0, 0, << >>, << >>, 0) }
    \cup { Item(Named(PdfSuffix), TRUE, n, b, << >>, << >>, 0) :
             n \in 1..MaxPdfPages, b \in 0..MaxPdfPages }

DocumentItems ==
    { it \in PdfItems : it.badPage \in { 0, it.npages } }
    \cup { Item(Named(<<".","d","o","c","x">>), TRUE, 0, 0, << >>, << >>, 2048) }

ImageItems ==
    { Item(Named(<<".","p","n","g">>), r, 0, 0, << >>, << >>, 0) : r \in BOOLEAN }

TextItems ==
    { Item(Named(<<".","t","x","t">>), FALSE, 0, 0, << >>, << >>, 0) }
    \cup { Item(Named(<<".","t","x","t">>), TRUE, 0, 0, c, << >>, 0) :
             c \in { << >>, Uniform(2, 1) } }

OfficeItems ==
    { Item(Named(<<".","x","l","s","x">>), FALSE, 0, 0, << >>, << >>, 0),
      Item(Named(<<".","x","l","s","x">>), TRUE, 0, 0, << >>,
           << << 5, 120 >>, << >> >>, 0),
      Item(Named(<<".","p","p","t","x">>), TRUE, 0, 0, << >>, << >>, 2048) }

BinaryItems ==
    { Item(Named(<<".","z","i","p">>), TRUE, 0, 0, << >>, << >>, 2048),
      Item(Named(<<".","x","y","z">>), TRUE, 0, 0, << >>, << >>, MiB + 1) }

Items ==
    DocumentItems \cup ImageItems \cup TextItems \cup OfficeItems \cup BinaryItems

InputLists == UNION { [1..n -> Items] : n \in 0..MaxFiles }

\* the text paginator's inputs: whole pages of short lines, one line more or
\* less, with and without a final newline, and lines that need wrapping
LineCounts ==
    0..2 \cup UNION { { k * max_lines - 1, k * max_lines, k * max_lines + 1 } :
                        k \in 1..MaxK }

TextInputs ==
    LET plain == { Uniform(n, len) : n \in LineCounts, len \in 0..2 }
        long == { Rep("a", len) :
                    len \in { chars_per_line, chars_per_line + 1,
                              2 * chars_per_line + 1 } }
    IN  plain
        \cup { c \o << NL >> : c \in plain }
        \cup long
        \cup { Uniform(n, 1) \o << NL >> \o l :
                 n \in { 1, max_lines - 2, max_lines - 1 }, l \in long }
        \cup { << TAB >>, << "a", CR, NL, TAB, "b" >>, << CR >> }

\* letter-case variants of an extension
UpperChar(c) ==
    IF \E i \in 1..26 : LowerLetters[i] = c
    THEN UpperLetters[CHOOSE i \in 1..26 : LowerLetters[i] = c]
    ELSE c

Upper(s) == [i \in 1..Len(s) |-> UpperChar(s[i])]

Capital(ext) == [i \in 1..Len(ext) |-> IF i = 2 THEN UpperChar(ext[i]) ELSE ext[i]]

CaseVariants(ext) == { ext, Upper(ext), Capital(ext) }

\* every extension of the tables and one outside them
KnownFormats ==
    SUPPORTED_IMAGE_FORMATS \cup SUPPORTED_TEXT_FORMATS \cup SUPPORTED_DOCUMENT_FORMATS
        \cup SUPPORTED_OFFICE_FORMATS \cup SUPPORTED_BINARY_FORMATS

\* file names of the dispatch runs: each extension in three letter cases, a
\* name without extension, a dot file and a name with two extensions
DispatchPaths ==
    { Named(v) : v \in UNION { CaseVariants(e) :
                                 e \in KnownFormats \cup { <<".","x","y","z">> } } }
    \cup { << "f" >>, PdfSuffix, Named(PdfSuffix \o <<".","t","x","t">>) }

\* sizes around one mebibyte; -1: os.path.getsize raises
Sizes == { -1, MiB - 1, MiB, MiB + 1 }

\* each file is there with one page, one line, one sheet of one row, or is not
\* readable at all
DispatchItems ==
    { Item(path, r, 1, 0, << "a" >>, << << 5 >> >>, size) :
        path \in DispatchPaths, r \in BOOLEAN, size \in Sizes }

\* the second path of the consistency check: another stem, the same extension
\* in each letter case, and one path of another category
TwinsOf(path) ==
    { << "g" >> \o v : v \in CaseVariants(Lower(Suffix(path))) }
    \cup { << "g", ".", "m", "p", "3" >> }

\* a sheet of n rows: the first row longer than a line holds, the second as
\* long as it, the third one character longer, the others short
RowsOf(n) ==
    [r \in 1..n |-> IF r = 1 THEN RowBudget + 10
                    ELSE IF r = 2 THEN RowBudget
                    ELSE IF r = 3 THEN RowBudget + 1
                    ELSE 5]

\* the rows that fit under a header at the top of a page before the page
\* break of the row loop: the cursor starts at height - 40 - 25
RowsPerPage == (A4Height - TopOffset - HeaderStep - RowFloor) \div RowStep + 1

\* sheets that are empty, short, and about as long as a page
RowCounts ==
    { 0, 1 } \cup { RowsPerPage - d : d \in { 4, 3, 1, 0, -1 } }

\* workbooks of one sheet or more (a workbook always has a sheet)
Workbooks ==
    UNION { [1..n -> { RowsOf(k) : k \in RowCounts }] : n \in 1..MaxSheets }

\* the inputs of the concurrent runs: a PDF of two pages, an image that
\* cannot be decoded, a text of two lines
RunItems ==
    { Item(Named(PdfSuffix), TRUE, 2, 0, << >>, << >>, 0),
      Item(Named(<<".","p","n","g">>), FALSE, 0, 0, << >>, << >>, 0),
      Item(Named(<<".","t","x","t">>), TRUE, 0, 0, Uniform(2, 1), << >>, 0) }

RunLists == UNION { [1..n -> RunItems] : n \in 0..MaxFiles }

\* safe_write: no file at the path, or one of two earlier contents; the
\* content to write is bytes, text, or something else
WriteTargets == { OnDisk(FALSE, "none"), OnDisk(TRUE, "v1"), OnDisk(TRUE, "v2") }

WriteContents ==
    { [type |-> t, data |-> d] : t \in { "bytes", "str" }, d \in { "v2", "v3" } }
    \cup { [type |-> "other", data |-> "v3"] }

(***************************************************************************)
(* Specifications.                                                         *)
(***************************************************************************)
TextIdle ==
    /\ textIn = << >>
    /\ textLines = << >>
    /\ textLineNo = 1
    /\ textCanvas = TextStart
    /\ textOut = << >>
    /\ textPc = "idle"

DispIdle ==
    /\ dispItem = Item(<< >>, FALSE, 0, 0, << >>, << >>, 0)
    /\ dispTwin = << >>
    /\ dispTypes = [ok |-> FALSE, category |-> "none"]
    /\ dispCategory = "none"
    /\ dispEffect = Effect(<< >>, FALSE)
    /\ dispPc = "idle"

SheetIdle ==
    /\ sheetIn = << >>
    /\ sheetNo = 1
    /\ sheetRowNo = 1
    /\ sheetCanvas = OfficeStart
    /\ sheetOut = << >>
    /\ sheetPc = "idle"

RunsIdle == runs = << >>

WriteIdle ==
    /\ swPath = OnDisk(FALSE, "none")
    /\ swPrev = OnDisk(FALSE, "none")
    /\ swContent = [type |-> "str", data |-> "none"]
    /\ swBackup = OnDisk(FALSE, "none")
    /\ swLog = << >>
    /\ swResult = [ok |-> FALSE, error |-> "running"]
    /\ swPc = "idle"

\* no window of the GUI
GuiIdle ==
    /\ guiHeap = << >>
    /\ guiFiles = 0
    /\ guiWin = "none"
    /\ thrPc = "none"
    /\ thrFiles = 0
    /\ thrPos = 0
    /\ thrSeen = << >>
    /\ thrGiven = << >>

\* no session of the CLI
CliIdle ==
    /\ cliFiles = << >>
    /\ cliCalled = "none"

\* no merge under way
MergeIdle ==
    /\ filepaths = << >>
    /\ HAS_OPENPYXL = TRUE
    /\ errorPageFails = FALSE
    /\ pc = "done"
    /\ idx = 1
    /\ writer = << >>
    /\ success_count = 0
    /\ result = NotReturned
    /\ dest = File("absent", << >>)
    /\ destOpens = 0

\* merge_all_to_pdf entered: "writer = PdfWriter(); success_count = 0"
Init ==
    /\ filepaths \in InputLists
    /\ HAS_OPENPYXL \in BOOLEAN
    /\ errorPageFails \in BOOLEAN
    /\ pc = "loop"
    /\ idx = 1
    /\ writer = << >>
    /\ success_count = 0
    /\ result = NotReturned
    /\ dest \in { File("absent", << >>), File("old", << >>) }
    /\ destOpens = 0
    /\ TextIdle
    /\ DispIdle
    /\ SheetIdle
    /\ RunsIdle
    /\ WriteIdle
    /\ GuiIdle
    /\ CliIdle

Next == ProcessItem \/ OpenDest \/ WriteDest

Spec == Init /\ [][Next]_vars

\* merge_all_to_pdf entered with a short list of a few kinds of input
InitFair ==
    /\ filepaths \in RunLists
    /\ HAS_OPENPYXL = TRUE
    /\ errorPageFails \in BOOLEAN
    /\ pc = "loop"
    /\ idx = 1
    /\ writer = << >>
    /\ success_count = 0
    /\ result = NotReturned
    /\ dest \in { File("absent", << >>), File("old", << >>) }
    /\ destOpens = 0
    /\ TextIdle
    /\ DispIdle
    /\ SheetIdle
    /\ RunsIdle
    /\ WriteIdle
    /\ GuiIdle
    /\ CliIdle

\* the call is one thread of straight-line code: a step that can be taken is
\* taken
SpecFair == InitFair /\ [][Next]_vars /\ WF_vars(Next)

\* _text_to_pdf_pages, step by step, on a text file that was read.
\* "if not content: return", else the canvas is set up and the content split
TextBegin ==
    /\ textPc = "ready"
    /\ IF textIn = << >>
       THEN /\ textPc' = "done"
            /\ textLines' = textLines
       ELSE /\ textPc' = "loop"
            /\ textLines' = Split(textIn)
    /\ UNCHANGED << textIn, textLineNo, textCanvas, textOut >>
    /\ UNCHANGED besideText

\* one iteration of "for line in lines"
TextLine ==
    /\ textPc = "loop"
    /\ textLineNo <= Len(textLines)
    /\ textCanvas' = TextLineStep(textCanvas, textLines[textLineNo])
    /\ textLineNo' = textLineNo + 1
    /\ UNCHANGED << textIn, textLines, textOut, textPc >>
    /\ UNCHANGED besideText

\* the last drawText / showPage / save, and the pages go to the writer
TextEnd ==
    /\ textPc = "loop"
    /\ textLineNo > Len(textLines)
    /\ textOut' = TextFinish(textCanvas)
    /\ textPc' = "done"
    /\ UNCHANGED << textIn, textLines, textLineNo, textCanvas >>
    /\ UNCHANGED besideText

InitText ==
    /\ textIn \in TextInputs
    /\ textLines = << >>
    /\ textLineNo = 1
    /\ textCanvas = TextStart
    /\ textOut = << >>
    /\ textPc = "ready"
    /\ filepaths = << >>
    /\ HAS_OPENPYXL = TRUE
    /\ errorPageFails = FALSE
    /\ pc = "done"
    /\ idx = 1
    /\ writer = << >>
    /\ success_count = 0
    /\ result = NotReturned
    /\ dest = File("absent", << >>)
    /\ destOpens = 0
    /\ DispIdle
    /\ SheetIdle
    /\ RunsIdle
    /\ WriteIdle
    /\ GuiIdle
    /\ CliIdle

NextText == TextBegin \/ TextLine \/ TextEnd

SpecText == InitText /\ [][NextText]_vars

\* One input from the file list to its pages: the consistency check made on
\* the list (cli.py, process_files), then the body of the for loop.
CheckTypes ==
    /\ dispPc = "check"
    /\ dispTypes' = check_file_types_consistency(<< dispItem.path, dispTwin >>)
    /\ dispPc' = "dispatch"
    /\ UNCHANGED << dispItem, dispTwin, dispCategory, dispEffect >>
    /\ UNCHANGED besideDisp

\* "category = get_file_category(fpath)" and the if / elif chain
Dispatch ==
    /\ dispPc = "dispatch"
    /\ dispCategory' = get_file_category(dispItem.path)
    /\ dispEffect' = Render(dispItem, HAS_OPENPYXL, errorPageFails)
    /\ dispPc' = "done"
    /\ UNCHANGED << dispItem, dispTwin, dispTypes >>
    /\ UNCHANGED besideDisp

InitDispatch ==
    /\ dispItem \in DispatchItems
    /\ dispTwin \in TwinsOf(dispItem.path)
    /\ dispTypes = [ok |-> FALSE, category |-> "none"]
    /\ dispCategory = "none"
    /\ dispEffect = Effect(<< >>, FALSE)
    /\ dispPc = "check"
    /\ MergeIdle
    /\ TextIdle
    /\ SheetIdle
    /\ RunsIdle
    /\ WriteIdle
    /\ GuiIdle
    /\ CliIdle

NextDispatch == CheckTypes \/ Dispatch

SpecDispatch == InitDispatch /\ [][NextDispatch]_vars

\* _office_to_pdf_pages, step by step, on a workbook that was loaded.
\* "Sheet Header" of the next sheet
SheetHeader ==
    /\ sheetPc = "header"
    /\ sheetNo <= Len(sheetIn)
    /\ sheetCanvas' = DrawHeader(sheetCanvas, sheetNo)
    /\ sheetRowNo' = 1
    /\ sheetPc' = "rows"
    /\ UNCHANGED << sheetIn, sheetNo, sheetOut >>
    /\ UNCHANGED besideSheet

\* one iteration of "for row in ws.iter_rows"
SheetRow ==
    /\ sheetPc = "rows"
    /\ sheetRowNo <= Len(sheetIn[sheetNo])
    /\ sheetCanvas' = DrawRow(sheetCanvas, sheetNo, sheetRowNo,
                              sheetIn[sheetNo][sheetRowNo])
    /\ sheetRowNo' = sheetRowNo + 1
    /\ UNCHANGED << sheetIn, sheetNo, sheetOut, sheetPc >>
    /\ UNCHANGED besideSheet

\* the rows of the sheet are over: "Spacer between sheets"
SheetEnd ==
    /\ sheetPc = "rows"
    /\ sheetRowNo > Len(sheetIn[sheetNo])
    /\ sheetCanvas' = SheetSpacer(sheetCanvas)
    /\ sheetNo' = sheetNo + 1
    /\ sheetPc' = "header"
    /\ UNCHANGED << sheetIn, sheetRowNo, sheetOut >>
    /\ UNCHANGED besideSheet

\* the sheets are over: c.save() and the pages go to the writer
SheetSave ==
    /\ sheetPc = "header"
    /\ sheetNo > Len(sheetIn)
    /\ sheetOut' = CanvasSave(sheetCanvas)
    /\ sheetPc' = "done"
    /\ UNCHANGED << sheetIn, sheetNo, sheetRowNo, sheetCanvas >>
    /\ UNCHANGED besideSheet

InitSheet ==
    /\ sheetIn \in Workbooks
    /\ sheetNo = 1
    /\ sheetRowNo = 1
    /\ sheetCanvas = OfficeStart
    /\ sheetOut = << >>
    /\ sheetPc = "header"
    /\ MergeIdle
    /\ TextIdle
    /\ DispIdle
    /\ RunsIdle
    /\ WriteIdle
    /\ GuiIdle
    /\ CliIdle

NextSheet == SheetHeader \/ SheetRow \/ SheetEnd \/ SheetSave

SpecSheet == InitSheet /\ [][NextSheet]_vars

\* Two calls of merge_all_to_pdf running at once (two threads), each with its
\* own file list and its own output_path.  A call's frame holds its locals.
Frame(files) ==
    [filepaths |-> files, pc |-> "loop", idx |-> 1, writer |-> << >>,
     success_count |-> 0, result |-> NotReturned,
     dest |-> File("absent", << >>), destOpens |-> 0]

\* a faulty WriterOf: the writer is one object kept on the processor, the
\* one the first call made
WriterOfProcessor(rs, r) == rs[1].writer

\* "writer = PdfWriter()" is a local of the call: the writer call r works on
WriterOf(rs, r) == rs[r].writer

\* one iteration of the for loop of call r
RunItem(r) ==
    /\ runs[r].pc = "loop"
    /\ MoreInputs(runs[r].idx, runs[r].filepaths)
    /\ LET step == ItemStep(runs[r].filepaths[runs[r].idx], HAS_OPENPYXL,
                            errorPageFails)
       IN  runs' = [runs EXCEPT
               ![r].writer = AddPages(WriterOf(runs, r), step.pages, runs[r].idx),
               ![r].success_count = IF step.counted THEN @ + 1 ELSE @,
               ![r].pc = IF step.raised THEN "done" ELSE "loop",
               ![r].idx = IF step.raised THEN @ ELSE @ + 1,
               ![r].result = IF step.raised
                             THEN Returned(FALSE, 0, "item error") ELSE @]
    /\ UNCHANGED besideRuns

\* open(output_path, "wb") of call r
RunOpen(r) ==
    /\ runs[r].pc = "loop"
    /\ ~MoreInputs(runs[r].idx, runs[r].filepaths)
    /\ \E opened \in BOOLEAN :
          IF opened
          THEN runs' = [runs EXCEPT ![r].dest = OpenedForWrite(@),
                                    ![r].destOpens = @ + 1,
                                    ![r].pc = "write"]
          ELSE runs' = [runs EXCEPT ![r].pc = "done",
                                    ![r].result = Returned(FALSE, 0, "io error")]
    /\ UNCHANGED besideRuns

\* writer.write(out_f) of call r and its return
RunWrite(r) ==
    /\ runs[r].pc = "write"
    /\ \E written \in BOOLEAN :
          IF written
          THEN runs' = [runs EXCEPT
                   ![r].dest = Written(@, WriterOf(runs, r)),
                   ![r].result = Returned(TRUE, runs[r].success_count, "none"),
                   ![r].pc = "done"]
          ELSE runs' = [runs EXCEPT
                   ![r].dest = WriteInterrupted(@, WriterOf(runs, r)),
                   ![r].result = Returned(FALSE, 0, "io error"),
                   ![r].pc = "done"]
    /\ UNCHANGED besideRuns

InitRuns ==
    /\ runs \in [1..2 -> { Frame(files) : files \in RunLists }]
    /\ MergeIdle
    /\ TextIdle
    /\ DispIdle
    /\ SheetIdle
    /\ WriteIdle
    /\ GuiIdle
    /\ CliIdle

NextRuns == \E r \in 1..2 : RunItem(r) \/ RunOpen(r) \/ RunWrite(r)

SpecRuns == InitRuns /\ [][NextRuns]_vars

\* FileManager.safe_write, step by step.
\* "path.parent.mkdir(parents=True, exist_ok=True)"
SwMkdir ==
    /\ swPc = "mkdir"
    /\ \E made \in BOOLEAN :
          IF made
          THEN /\ swPc' = "backup"
               /\ UNCHANGED << swLog, swResult >>
          ELSE /\ swPc' = "done"
               /\ swLog' = Append(swLog, "Write failed")
               /\ swResult' = [ok |-> FALSE, error |-> "os error"]
    /\ UNCHANGED << swPath, swPrev, swContent, swBackup >>
    /\ UNCHANGED besideWrite

\* "if path.exists():" the file is copied to the backup path; an OSError of
\* the copy is logged as a warning and the call goes on
SwBackup ==
    /\ swPc = "backup"
    /\ IF BackupWanted(swPath)
       THEN \E outcome \in { "copied", "cut", "refused" } :
               /\ swBackup' = IF outcome = "copied" THEN BackedUp(swPath)
                               ELSE IF outcome = "cut" THEN BackupCut(swPath)
                               ELSE swBackup
               /\ swLog' = Append(swLog, IF outcome = "copied" THEN "Backup created"
                                          ELSE "Failed to create backup")
       ELSE UNCHANGED << swBackup, swLog >>
    /\ swPc' = "write"
    /\ UNCHANGED << swPath, swPrev, swContent, swResult >>
    /\ UNCHANGED besideWrite

\* the write by type of content, and the return
SwWrite ==
    /\ swPc = "write"
    /\ IF Writable(swContent)
       THEN \E outcome \in { "written", "not opened", "cut" } :
               /\ swPath' = IF outcome = "written" THEN OnDisk(TRUE, swContent.data)
                             ELSE IF outcome = "cut" THEN OnDisk(TRUE, "partial")
                             ELSE swPath
               /\ swLog' = Append(swLog, IF outcome = "written" THEN "File saved"
                                          ELSE "Write failed")
               /\ swResult' = IF outcome = "written"
                               THEN [ok |-> TRUE, error |-> "none"]
                               ELSE [ok |-> FALSE, error |-> "os error"]
       ELSE /\ swResult' = [ok |-> FALSE, error |-> "Unsupported content type"]
            /\ UNCHANGED << swPath, swLog >>
    /\ swPc' = "done"
    /\ UNCHANGED << swPrev, swContent, swBackup >>
    /\ UNCHANGED besideWrite

InitWrite ==
    /\ swPath \in WriteTargets
    /\ swPrev = swPath
    /\ swContent \in WriteContents
    /\ swBackup = OnDisk(FALSE, "none")
    /\ swLog = << >>
    /\ swResult = [ok |-> FALSE, error |-> "running"]
    /\ swPc = "mkdir"
    /\ MergeIdle
    /\ TextIdle
    /\ DispIdle
    /\ SheetIdle
    /\ RunsIdle
    /\ GuiIdle
    /\ CliIdle

NextWrite == SwMkdir \/ SwBackup \/ SwWrite

SpecWrite == InitWrite /\ [][NextWrite]_vars

(***************************************************************************)
(* The file lists of the two front ends.                                   *)
(***************************************************************************)
\* a path the user gives, with what is on disk under it
Picked(path, exists, is_file, readable) ==
    [path |-> path, exists |-> exists, is_file |-> is_file, readable |-> readable]

\* FileManager.validate_file
validate_file(f) ==
    IF ~f.exists THEN [ok |-> FALSE, error |-> "File not found"]
    ELSE IF ~f.is_file THEN [ok |-> FALSE, error |-> "Not a file"]
    ELSE IF ~f.readable THEN [ok |-> FALSE, error |-> "Permission denied"]
    ELSE IF ~is_supported_file(f.path)
         THEN [ok |-> FALSE, error |-> "Unsupported format"]
    ELSE [ok |-> TRUE, error |-> "None"]

\* "p in self.files"
Contains(files, path) == \E i \in 1..Len(files) : files[i] = path

FileName(stem, ext) == << stem >> \o ext

\* a file that is there and can be read
Present(stem, ext) == Picked(FileName(stem, ext), TRUE, TRUE, TRUE)

\* what the file dialog of the GUI can return: images, a text, a file that
\* has gone
GuiCandidates ==
    { Present("a", <<".","p","n","g">>), Present("b", <<".","p","n","g">>),
      Present("c", <<".","t","x","t">>),
      Picked(FileName("e", <<".","p","n","g">>), FALSE, FALSE, FALSE) }

\* askopenfilenames: one path or two
GuiPicks ==
    { << f >> : f \in GuiCandidates }
    \cup { pair \in { << f, g >> : f \in GuiCandidates, g \in GuiCandidates } :
               pair[1] # pair[2] }

\* the folders of batch_process, as os.scandir lists them
Folders ==
    { << FileName("a", <<".","p","n","g">>), FileName("c", <<".","t","x","t">>) >>,
      << FileName("b", <<".","P","N","G">>), FileName("a", <<".","p","n","g">>) >>,
      << FileName("c", <<".","t","x","t">>) >>,
      << FileName("d", <<".","x","y","z">>) >> }

\* batch_process: "exts" of the two choices
BatchImageExts ==
    { <<".","p","n","g">>, <<".","j","p","g">>, <<".","j","p","e","g">>,
      <<".","b","m","p">>, <<".","g","i","f">>, <<".","w","e","b","p">>,
      <<".","t","i","f","f">> }

BatchTextExts ==
    { <<".","t","x","t">>, <<".","m","d">>, <<".","l","o","g">>, <<".","c","s","v">>,
      <<".","j","s","o","n">>, <<".","x","m","l">>, <<".","p","y">> }

\* GUIApp.add_files: the loop over the paths picked
RECURSIVE GuiAddLoop(_, _)
GuiAddLoop(paths, files) ==
    IF paths = << >> THEN files
    ELSE LET p == Head(paths)
         IN  GuiAddLoop(Tail(paths),
                        IF validate_file(p).ok /\ ~Contains(files, p.path)
                        THEN Append(files, p.path)
                        ELSE files)

\* threading.Thread(target=self._process_files_background, args=(.., {'files':
\* self.files, ..})).start(): the thread holds the list object itself
StartThread(ref, heap) ==
    /\ thrPc' = "running"
    /\ thrFiles' = ref
    /\ thrPos' = 1
    /\ thrSeen' = << >>
    /\ thrGiven' = heap[ref]

thrVars == << thrPc, thrFiles, thrPos, thrSeen, thrGiven >>

\* GUIApp.process_files on the list object ref: the mode dialog, then
\* _collect_files (which starts the thread) or the options window of the
\* category.  One background thread at a time is followed.
ProcessFiles(ref, heap) ==
    IF heap[ref] = << >>
    THEN UNCHANGED << guiWin, thrVars >>
    ELSE LET category == check_file_types_consistency(heap[ref]).category
         IN  \E mode_choice \in { "collect", "merge", "None" } :
                IF mode_choice = "collect"
                THEN /\ thrPc # "running"
                     /\ StartThread(ref, heap)
                     /\ guiWin' = guiWin
                ELSE IF mode_choice = "merge"
                THEN /\ guiWin' = IF category \in { "image", "text" } THEN category
                                  ELSE guiWin
                     /\ UNCHANGED thrVars
                ELSE UNCHANGED << guiWin, thrVars >>

\* GUIApp.add_files
GuiAddFiles ==
    /\ guiWin = "none"
    /\ \E paths \in GuiPicks :
          LET files == GuiAddLoop(paths, guiHeap[guiFiles])
          IN  /\ Len(files) <= MaxFiles
              /\ guiHeap' = [guiHeap EXCEPT ![guiFiles] = files]
    /\ UNCHANGED << guiFiles, guiWin, thrVars >>
    /\ UNCHANGED besideGui

\* GUIApp.clear_selection: self.files.clear() when the user says yes
GuiClearSelection ==
    /\ guiWin = "none"
    /\ guiHeap[guiFiles] # << >>
    /\ \E yes \in BOOLEAN :
          guiHeap' = IF yes THEN [guiHeap EXCEPT ![guiFiles] = << >>] ELSE guiHeap
    /\ UNCHANGED << guiFiles, guiWin, thrVars >>
    /\ UNCHANGED besideGui

\* GUIApp.process_files, from its button
GuiProcessFiles ==
    /\ guiWin = "none"
    /\ ProcessFiles(guiFiles, guiHeap)
    /\ UNCHANGED << guiHeap, guiFiles >>
    /\ UNCHANGED besideGui

\* on_process of show_image_options and of show_text_options: the window is
\* destroyed and the thread started with options['files'] = self.files
GuiOnProcess ==
    /\ guiWin \in { "image", "text" }
    /\ thrPc # "running"
    /\ guiWin' = "none"
    /\ StartThread(guiFiles, guiHeap)
    /\ UNCHANGED << guiHeap, guiFiles >>
    /\ UNCHANGED besideGui

\* GUIApp.batch_process: self.files = files_found names a new list object;
\* process_files follows when the user confirms
GuiBatchProcess ==
    /\ guiWin = "none"
    /\ Len(guiHeap) < MaxLists
    /\ \E folder \in Folders, choice \in { "yes", "no" }, confirm \in BOOLEAN :
          LET exts == IF choice = "yes" THEN BatchImageExts ELSE BatchTextExts
              files_found ==
                  SelectSeq(folder, LAMBDA e : Lower(Suffix(e)) \in exts)
              heap == Append(guiHeap, files_found)
          IN  /\ files_found # << >>
              /\ guiHeap' = heap
              /\ guiFiles' = Len(heap)
              /\ IF confirm THEN ProcessFiles(Len(heap), heap)
                 ELSE UNCHANGED << guiWin, thrVars >>
    /\ UNCHANGED besideGui

\* _process_files_background: one turn of the "for f in files" of
\* copy_files_to_folder, load_images or merge_text_files, which reads the list
\* object at the iterator's position, or the end of the loop
ThreadStep ==
    /\ thrPc = "running"
    /\ IF thrPos <= Len(guiHeap[thrFiles])
       THEN /\ thrSeen' = Append(thrSeen, guiHeap[thrFiles][thrPos])
            /\ thrPos' = thrPos + 1
            /\ thrPc' = thrPc
       ELSE /\ thrPc' = "done"
            /\ UNCHANGED << thrSeen, thrPos >>
    /\ UNCHANGED << guiHeap, guiFiles, guiWin, thrFiles, thrGiven >>
    /\ UNCHANGED besideGui

\* GUIApp.__init__: self.files = []
InitGui ==
    /\ guiHeap = << << >> >>
    /\ guiFiles = 1
    /\ guiWin = "none"
    /\ thrPc = "none"
    /\ thrFiles = 0
    /\ thrPos = 0
    /\ thrSeen = << >>
    /\ thrGiven = << >>
    /\ MergeIdle
    /\ TextIdle
    /\ DispIdle
    /\ SheetIdle
    /\ RunsIdle
    /\ WriteIdle
    /\ CliIdle

NextGui ==
    \/ GuiAddFiles
    \/ GuiClearSelection
    \/ GuiProcessFiles
    \/ GuiOnProcess
    \/ GuiBatchProcess
    \/ ThreadStep

SpecGui == InitGui /\ [][NextGui]_vars

\* what the user can type at "Path: " of the CLI: a file of each category, one
\* with its extension in capitals, a file of no supported format, a file that
\* is not there, a directory, a file that cannot be read
CliCandidates ==
    { Present("a", <<".","p","n","g">>), Present("b", <<".","t","x","t">>),
      Present("c", <<".","p","d","f">>), Present("d", <<".","x","l","s","x">>),
      Present("e", <<".","z","i","p">>), Present("g", <<".","P","N","G">>),
      Present("h", <<".","x","y","z">>),
      Picked(FileName("i", <<".","p","n","g">>), FALSE, FALSE, FALSE),
      Picked(FileName("j", <<".","t","x","t">>), TRUE, FALSE, TRUE),
      Picked(FileName("k", <<".","p","d","f">>), TRUE, TRUE, FALSE) }

\* the paths typed in one visit of "Add Files", before the empty line
CliInputs ==
    { << f >> : f \in CliCandidates }
    \cup { << f, g >> : f \in CliCandidates, g \in CliCandidates }

\* CLI.add_files: the loop over the paths typed
RECURSIVE CliAddLoop(_, _)
CliAddLoop(typed, files) ==
    IF typed = << >> THEN files
    ELSE CliAddLoop(Tail(typed),
                    IF validate_file(Head(typed)).ok
                    THEN Append(files, Head(typed).path)
                    ELSE files)

\* list.pop(idx), idx 0-based
Pop(files, i) == SubSeq(files, 1, i) \o SubSeq(files, i + 2, Len(files))

\* CLI.add_files
CliAddFiles ==
    /\ \E typed \in CliInputs :
          LET files == CliAddLoop(typed, cliFiles)
          IN  /\ Len(files) <= MaxFiles
              /\ cliFiles' = files
    /\ cliCalled' = "add_files"
    /\ UNCHANGED besideCli

\* CLI.manage_files
CliManageFiles ==
    /\ IF cliFiles = << >>
       THEN /\ cliCalled' = "List is empty."
            /\ cliFiles' = cliFiles
       ELSE \E choice \in { "D", "C", "B" }, number \in 0..(MaxFiles + 1) :
              IF choice = "D"
              THEN IF 0 <= number - 1 /\ number - 1 < Len(cliFiles)
                   THEN /\ cliFiles' = Pop(cliFiles, number - 1)
                        /\ cliCalled' = "Removed"
                   ELSE /\ cliFiles' = cliFiles
                        /\ cliCalled' = "Invalid index."
              ELSE IF choice = "C"
              THEN /\ cliFiles' = << >>
                   /\ cliCalled' = "List cleared."
              ELSE /\ cliFiles' = cliFiles
                   /\ cliCalled' = "Back"
    /\ UNCHANGED besideCli

\* CLI.process_files
CliProcessFiles ==
    /\ cliCalled' =
          IF cliFiles = << >> THEN "No files."
          ELSE LET cat == check_file_types_consistency(cliFiles).category
               IN  IF cat = "image" THEN "_process_images"
                   ELSE IF cat = "text" THEN "_process_text"
                   ELSE IF cat \in { "mixed", "document" } THEN "_process_universal"
                   ELSE "Unknown category."
    /\ cliFiles' = cliFiles
    /\ UNCHANGED besideCli

\* CLI.__init__
InitCli ==
    /\ cliFiles = << >>
    /\ cliCalled = "none"
    /\ MergeIdle
    /\ TextIdle
    /\ DispIdle
    /\ SheetIdle
    /\ RunsIdle
    /\ WriteIdle
    /\ GuiIdle

NextCli == CliAddFiles \/ CliManageFiles \/ CliProcessFiles

SpecCli == InitCli /\ [][NextCli]_vars

(***************************************************************************)
(* Properties of merge_all_to_pdf.                                         *)
(***************************************************************************)
\* the inputs whose iteration of the for loop has ended
Processed == 1..(idx - 1)

LoopOver == ~(idx <= Len(filepaths))

\* the pages an input left in a page sequence
PagesOf(pages, j) == SelectSeq(pages, LAMBDA p : p.src = j)

StepOf(j) == ItemStep(filepaths[j], HAS_OPENPYXL, errorPageFails)

\* the block of input j: the pages its iteration produced, in their order
Block(j) ==
    LET pages == StepOf(j).pages
    IN  [k \in 1..Len(pages) |-> [src |-> j, n |-> k, page |-> pages[k]]]

RECURSIVE Blocks(_)
Blocks(n) == IF n = 0 THEN << >> ELSE Blocks(n - 1) \o Block(n)

RECURSIVE SumPages(_)
SumPages(n) == IF n = 0 THEN 0 ELSE SumPages(n - 1) + Len(StepOf(n).pages)

IsPdf(item) ==
    /\ get_file_category(item.path) = "document"
    /\ Lower(Suffix(item.path)) = PdfSuffix

IsSpreadsheet(item) ==
    /\ get_file_category(item.path) = "office"
    /\ Lower(Suffix(item.path)) \in ExcelSuffixes

\* a spreadsheet that cannot be read: no library, or a workbook that does not load
SheetReadFails(item) == IsSpreadsheet(item) /\ (~HAS_OPENPYXL \/ ~item.readable)

\* the file on disk cannot be rendered by the renderer of its category
Unrenderable(item) ==
    \/ IsPdf(item) /\ (~item.readable \/ item.badPage # 0)
    \/ get_file_category(item.path) \in { "image", "text" } /\ ~item.readable
    \/ SheetReadFails(item)

IsErrorPage(p) == p.page.kind = "error"

\* C1: after merge_all_to_pdf completes, the output page sequence is the
\* concatenation, in input order, of the blocks of pages produced for the
\* inputs, each block in its own order: the pages of two inputs are never
\* interleaved or reordered, and the page count is the sum of the inputs'
\* page counts.
C1_OrderPreservation ==
    /\ \A p \in 1..Len(writer) :
          /\ writer[p].src \in 1..Len(filepaths)
          /\ IF p > 1 /\ writer[p - 1].src = writer[p].src
             THEN writer[p].n = writer[p - 1].n + 1
             ELSE /\ writer[p].n = 1
                  /\ p > 1 => writer[p - 1].src < writer[p].src
    /\ (pc = "done" /\ result.ok) =>
          /\ dest.pages = Blocks(Len(filepaths))
          /\ Len(dest.pages) = SumPages(Len(filepaths))

\* a completed run of two inputs that gave two pages or more each
C1_Witness ==
    /\ pc = "done"
    /\ result.ok
    /\ Len(filepaths) = 2
    /\ Len(PagesOf(dest.pages, 1)) >= 2
    /\ Len(PagesOf(dest.pages, 2)) >= 2

\* C2: with exactly one unrenderable input among N >= 2 otherwise valid ones
\* the run does not abort, succeeded = N - 1 (so failed = 1), and the output
\* holds the pages of the N - 1 valid inputs plus one error page.  (Stated for
\* the runs in which the error page itself can be built.)
C2_FailureIsolation ==
    LET n == Len(filepaths)
        bad == { j \in 1..n : Unrenderable(filepaths[j]) }
        j0 == CHOOSE j \in bad : TRUE
    IN  (n >= 2 /\ Cardinality(bad) = 1 /\ ~errorPageFails /\ LoopOver) =>
          /\ result.reason # "item error"
          /\ success_count = n - 1
          /\ Len(writer) = SumPages(n) - Len(StepOf(j0).pages) + 1
          /\ Cardinality({ p \in 1..Len(writer) : IsErrorPage(writer[p]) }) = 1

\* C3: a request with an empty input list ends in a failed result and the
\* destination is never created or written.
C3_ZeroInputRejected ==
    filepaths = << >> =>
        /\ destOpens = 0
        /\ dest.state \in { "absent", "old" }
        /\ pc = "done" => ~result.ok

\* C4: the run returns False only if the destination cannot be opened or
\* written, or the input list is empty; never because of an item-level
\* failure, a failure while building the item's error page included.
C4_ItemFailureNeverFatal ==
    (pc = "done" /\ ~result.ok) =>
        \/ result.reason = "io error"
        \/ filepaths = << >>

\* C5: after every iteration of the for loop the writer holds at least one
\* page of the input just processed; a completed run over n inputs outputs
\* at least n pages.
C5_OnePagePerInput ==
    /\ \A j \in Processed : Len(PagesOf(writer, j)) >= 1
    /\ (pc = "done" /\ result.ok) => Len(dest.pages) >= Len(filepaths)

\* C6: an input whose rendering fails leaves exactly one page, the error page,
\* and none of its own pages; an input whose rendering succeeds leaves its
\* own pages and no error page.
C6_ErrorPageInsteadOfPages ==
    \A j \in Processed :
        LET own == PagesOf(writer, j)
        IN  IF Unrenderable(filepaths[j])
            THEN Len(own) = 1 /\ IsErrorPage(own[1])
            ELSE \A k \in 1..Len(own) : ~IsErrorPage(own[k])

\* C7: the destination is opened for writing once, after the last input has
\* been processed: while an input is unprocessed the destination has not been
\* created, truncated or written.
C7_WriteOnceAfterLoop ==
    /\ ~LoopOver => (destOpens = 0 /\ dest.state \in { "absent", "old" })
    /\ destOpens <= 1
    /\ (pc = "done" /\ result.ok) => (destOpens = 1 /\ dest.state = "complete")

\* a completed run of two inputs, its output written
C7_Witness ==
    /\ pc = "done"
    /\ result.ok
    /\ Len(filepaths) = 2
    /\ destOpens = 1
    /\ dest.pages = writer

\* C8: when writing the destination fails the run returns False with the I/O
\* reason and leaves no partial file: a destination that was there is not left
\* truncated or half-written.
C8_NoPartialFile ==
    (pc = "done" /\ result.reason = "io error" /\ filepaths # << >>) =>
        /\ ~result.ok
        /\ dest.state \in { "absent", "old" }

\* C9: a spreadsheet whose reading fails (library missing, workbook not
\* loadable) is counted as failed, never as succeeded, and contributes exactly
\* one error page.
C9_SheetFailureCounted ==
    LET failed == { j \in Processed : SheetReadFails(filepaths[j]) }
    IN  /\ success_count <= (idx - 1) - Cardinality(failed)
        /\ \A j \in failed :
              /\ Len(PagesOf(writer, j)) = 1
              /\ IsErrorPage(PagesOf(writer, j)[1])

\* a text file that was read and holds nothing
IsEmptyText(item) ==
    /\ get_file_category(item.path) = "text"
    /\ item.readable
    /\ item.content = << >>

\* C13: a text input with empty content yields zero pages and is not a
\* failure: it leaves no page at all (so no error page), it is counted as
\* succeeded, and the run does not stop at it but goes on to the next input.
C13_EmptyTextNoPages ==
    LET empty == { j \in 1..Len(filepaths) : IsEmptyText(filepaths[j]) }
    IN  /\ \A j \in empty :
              /\ PagesOf(writer, j) = << >>
              /\ ~(pc = "done" /\ idx = j)
        /\ success_count >= Cardinality(empty \cap Processed)

\* a completed run whose first input is an empty text and whose second input
\* gave pages
C13_Witness ==
    /\ pc = "done"
    /\ result.ok
    /\ Len(filepaths) = 2
    /\ IsEmptyText(filepaths[1])
    /\ result.merged = 2
    /\ Len(dest.pages) >= 1
    /\ \A p \in 1..Len(dest.pages) : dest.pages[p].src = 2

\* a text file whose read fails: read_file_safe returns (None, error)
IsUnreadText(item) ==
    /\ get_file_category(item.path) = "text"
    /\ read_file_safe(item).none

\* C14: a text input whose read fails (no content, together with an error) is
\* recovered as exactly one error page and counted as failed; it is never
\* skipped without a page or counted as succeeded.
C14_UnreadTextIsFailure ==
    LET unread == { j \in Processed : IsUnreadText(filepaths[j]) }
    IN  /\ \A j \in unread :
              /\ Len(PagesOf(writer, j)) = 1
              /\ IsErrorPage(PagesOf(writer, j)[1])
        /\ success_count + Cardinality(unread) <= idx - 1

\* what a call produces when it runs alone: the blocks of its first n inputs,
\* and how many of them it counts
RECURSIVE AloneBlocks(_, _)
AloneBlocks(files, n) ==
    IF n = 0 THEN << >>
    ELSE LET pages == ItemStep(files[n], HAS_OPENPYXL, errorPageFails).pages
         IN  AloneBlocks(files, n - 1)
                 \o [k \in 1..Len(pages) |-> [src |-> n, n |-> k, page |-> pages[k]]]

RECURSIVE AloneCount(_, _)
AloneCount(files, n) ==
    IF n = 0 THEN 0
    ELSE AloneCount(files, n - 1)
             + (IF ItemStep(files[n], HAS_OPENPYXL, errorPageFails).counted
                THEN 1 ELSE 0)

\* C18: two runs at once with different destinations are independent: each
\* has its own accumulator and counters, and at every moment, and in its
\* output and result, each run has what it would have if it ran alone.
C18_RunsIndependent ==
    \A r \in DOMAIN runs :
        LET f == runs[r]
            all == Len(f.filepaths)
        IN  /\ f.writer = AloneBlocks(f.filepaths, f.idx - 1)
            /\ f.success_count = AloneCount(f.filepaths, f.idx - 1)
            /\ f.dest.state = "complete" =>
                   f.dest.pages = AloneBlocks(f.filepaths, all)
            /\ (f.pc = "done" /\ f.result.ok) =>
                   /\ f.dest.state = "complete"
                   /\ f.result.merged = AloneCount(f.filepaths, all)

\* both runs under way: the first between its two inputs, the second about
\* to write, their writers filled with different pages
C18_Witness ==
    /\ runs # << >>
    /\ runs[1].pc = "loop"
    /\ runs[1].idx = 2
    /\ Len(runs[1].filepaths) = 2
    /\ runs[2].pc = "write"
    /\ Len(runs[1].writer) >= 1
    /\ Len(runs[2].writer) >= 1
    /\ runs[1].filepaths # runs[2].filepaths

\* C27: each call of a single-page renderer that succeeds appends exactly one
\* page: an image that decodes leaves one image page, an input of the
\* placeholder (binary, unknown, a document that is no PDF) one card, and an
\* input whose renderer raised (a PDF that does not parse or has a page that
\* cannot be added, an image that does not decode) one error page, the last
\* of its pages; no input ever has two error pages.
C27_SinglePageRenderers ==
    \A j \in Processed :
        LET own == PagesOf(writer, j)
            item == filepaths[j]
            category == get_file_category(item.path)
            pdf == category = "document" /\ Lower(Suffix(item.path)) = PdfSuffix
            errors == { k \in 1..Len(own) : IsErrorPage(own[k]) }
        IN  /\ (category = "image" /\ item.readable) =>
                  (Len(own) = 1 /\ own[1].page.kind = "image")
            /\ (category \in { "binary", "unknown" } \/ (category = "document" /\ ~pdf)) =>
                  (Len(own) = 1 /\ own[1].page.kind = "card")
            /\ Cardinality(errors) <= 1
            /\ ((pdf /\ (~item.readable \/ item.badPage # 0))
                    \/ (category = "image" /\ ~item.readable)) =>
                  Cardinality(errors) = 1
            /\ errors # {} => errors = { Len(own) }

\* a run went over an image that decodes and one that does not: an image page
\* and an error page
C27_Witness ==
    /\ LoopOver
    /\ Len(filepaths) = 2
    /\ Len(writer) = 2
    /\ writer[1].page.kind = "image"
    /\ writer[2].page.kind = "error"
    /\ get_file_category(filepaths[2].path) = "image"

\* C25: the loop processes each input exactly once, strictly in index order,
\* none skipped or revisited: the position moves one input at a time and
\* gets past the last input; and every run reaches a terminal result.
C25_EachInputOnce ==
    /\ [][idx' = idx \/ (idx' = idx + 1 /\ idx <= Len(filepaths))]_vars
    /\ <>(idx = Len(filepaths) + 1)
    /\ <>(pc = "done" /\ result # NotReturned)

(***************************************************************************)
(* Properties of the text paginator.                                       *)
(***************************************************************************)
\* the physical lines of the content when no line needs wrapping
NoWrapNeeded(content) ==
    \A i \in 1..Len(Split(content)) :
        Len(Sanitize(Split(content)[i])) <= chars_per_line

\* C15: the characters per line and the lines per page the paginator uses are
\* derived from the page geometry: for the font size of its text object,
\* doubling the size gives strictly smaller values of both.
C15_GeometrySensitive ==
    textPc = "loop" =>
        /\ LinesPerPage(2 * font_size) < LinesPerPage(font_size)
        /\ CharsPerLine(2 * font_size) < CharsPerLine(font_size)

\* the pages of the canvas so far: those shown and the open one
TextPagesSoFar == textCanvas.shown \o << TextPage(textCanvas.cont, textCanvas.open) >>

\* C20: the paginator shows a page when its buffer reaches max_lines, so no
\* page ever holds more than max_lines physical lines, also when a logical
\* line wraps into several physical lines.
C20_PageNeverOverfull ==
    /\ \A k \in 1..Len(TextPagesSoFar) : Len(TextPagesSoFar[k].lines) <= max_lines
    /\ \A k \in 1..Len(textOut) : Len(textOut[k].lines) <= max_lines

\* the physical lines drawn so far, page after page
RECURSIVE LinesOf(_)
LinesOf(pages) ==
    IF pages = << >> THEN << >>
    ELSE LinesOf(SubSeq(pages, 1, Len(pages) - 1)) \o pages[Len(pages)].lines

PhysicalLines == LinesOf(TextPagesSoFar)

RECURSIVE Joined(_)
Joined(chunks) ==
    IF chunks = << >> THEN << >>
    ELSE Joined(SubSeq(chunks, 1, Len(chunks) - 1)) \o chunks[Len(chunks)]

\* ceil(L / chars_per_line) for a line of L > 0 characters, 1 for an empty line
ChunkCount(safe_line) ==
    IF Len(safe_line) = 0 THEN 1
    ELSE (Len(safe_line) + chars_per_line - 1) \div chars_per_line

\* the widest line of the inputs wraps into this many chunks
MaxChunks == ChunkCount(Rep("a", 2 * chars_per_line + 1))

\* C21: hard wrapping is lossless and bounded: the physical lines drawn for
\* the logical line just processed have at most chars_per_line characters
\* each, joined in order they are the sanitized line, there are
\* ceil(L / chars_per_line) of them for a line of L > 0 characters and one
\* empty physical line for an empty line; nothing else was drawn.
C21_WrappingLossless ==
    (textPc = "loop" /\ textLineNo > 1) =>
        LET done == textLineNo - 1
            safe == Sanitize(textLines[done])
            n == ChunkCount(safe)
            all == PhysicalLines
            last == SubSeq(all, Len(all) - n + 1, Len(all))
        IN  /\ Len(all) =
                  Cardinality({ ik \in (1..done) \X (1..MaxChunks) :
                                  ik[2] <= ChunkCount(Sanitize(textLines[ik[1]])) })
            /\ Len(last) = n
            /\ \A k \in 1..n : Len(last[k]) <= chars_per_line
            /\ Joined(last) = safe
            /\ safe = << >> => last = << << >> >>

\* a line of two full chunks and one character has just been drawn
C21_Witness ==
    /\ textPc = "loop"
    /\ textLineNo > 1
    /\ Len(Sanitize(textLines[textLineNo - 1])) = 2 * chars_per_line + 1
    /\ Len(PhysicalLines) >= MaxChunks
    /\ Len(PhysicalLines[Len(PhysicalLines)]) = 1
    /\ Len(PhysicalLines[Len(PhysicalLines) - 1]) = chars_per_line

\* the chunks of the logical lines as <<line, chunk>>, for the first m lines
ChunkIndex(m) ==
    { ik \in (1..m) \X (1..MaxChunks) :
        ik[2] <= ChunkCount(Sanitize(textLines[ik[1]])) }

\* C22: for a non-empty content every physical line is on the emitted pages
\* exactly once and in the original order, none lost or repeated where a
\* page ends, and what is left in the buffer at the end is emitted as the
\* last page, even a single line.
C22_EveryLineOnce ==
    (textPc = "done" /\ textIn # << >>) =>
        LET out == LinesOf(textOut)
            all == ChunkIndex(Len(textLines))
            Before(i) == Cardinality({ ik \in all : ik[1] < i })
        IN  /\ Len(out) = Cardinality(all)
            /\ \A ik \in all :
                   out[Before(ik[1]) + ik[2]] = Chunks(Sanitize(textLines[ik[1]]))[ik[2]]
            /\ textCanvas.open # << >> =>
                   textOut[Len(textOut)].lines = textCanvas.open

\* a text of max_lines + 1 lines emitted: a full page and a page of one line
C22_Witness ==
    /\ textPc = "done"
    /\ Len(textLines) = max_lines + 1
    /\ Len(textOut) = 2
    /\ Len(textOut[1].lines) = max_lines
    /\ Len(textOut[2].lines) = 1

\* C23: every page of a text item has the file-name header (a text page is a
\* page under its header and rule); the first page has the header without
\* "(Cont.)" and every later page has it with "(Cont.)", while the pages are
\* drawn and in what is emitted.
C23_ContinuationHeader ==
    /\ textPc \in { "loop", "done" } =>
           \A k \in 1..Len(TextPagesSoFar) :
               /\ TextPagesSoFar[k].kind = "text"
               /\ TextPagesSoFar[k].cont = (k > 1)
    /\ \A k \in 1..Len(textOut) :
           /\ textOut[k].kind = "text"
           /\ textOut[k].cont = (k > 1)

\* three pages emitted for one text
C23_Witness ==
    /\ textPc = "done"
    /\ Len(textOut) = 3
    /\ ~textOut[1].cont
    /\ textOut[2].cont
    /\ textOut[3].cont
    /\ textOut[3].lines # << >>

\* C10: a text of exactly max_lines * k physical lines (k >= 1), none needing
\* wrapping, gives exactly k pages of max_lines lines each, with no empty
\* page behind them.
C10_PaginationExact ==
    LET n == Len(Split(textIn))
    IN  (textPc = "done" /\ textIn # << >> /\ n % max_lines = 0
            /\ NoWrapNeeded(textIn)) =>
          /\ Len(textOut) = n \div max_lines
          /\ \A k \in 1..Len(textOut) : Len(textOut[k].lines) = max_lines

(***************************************************************************)
(* Properties of classification and dispatch.                              *)
(***************************************************************************)
\* the renderer that produced the pages of a readable input, by their kind
RenderedAs(kind) ==
    /\ ~dispEffect.raised
    /\ Len(dispEffect.pages) >= 1
    /\ \A k \in 1..Len(dispEffect.pages) : dispEffect.pages[k].kind = kind

\* C11: dispatch follows the table for every input: a PDF document goes to
\* the pass-through appender and the other documents to the placeholder, an
\* image to the image renderer, a text to the text paginator, every
\* spreadsheet (its extension in any letter case) to the tabular renderer,
\* binary and unknown files to the placeholder.
C11_DispatchTable ==
    (dispPc = "done" /\ dispItem.readable) =>
        /\ IsPdf(dispItem) => RenderedAs("pdf")
        /\ (dispCategory = "document" /\ ~IsPdf(dispItem)) => RenderedAs("card")
        /\ dispCategory = "image" => RenderedAs("image")
        /\ dispCategory = "text" => RenderedAs("text")
        /\ IsSpreadsheet(dispItem) => RenderedAs("sheet")
        /\ dispCategory \in { "binary", "unknown" } => RenderedAs("card")

\* C12: classification is a pure, case-insensitive function of the
\* extension: two paths whose extensions differ only in letter case get the
\* same category, whatever their stems and whether the files can be read; the
\* category is always one of the fixed set; a later call for the same path
\* gives the same category again.
C12_ClassificationByExtension ==
    LET same == Lower(Suffix(dispItem.path)) = Lower(Suffix(dispTwin))
    IN  /\ dispPc \in { "dispatch", "done" } =>
              /\ dispTypes.ok
              /\ dispTypes.category \in Categories \cup { "mixed" }
              /\ same => dispTypes.category \in Categories
        /\ dispPc = "done" =>
              /\ dispCategory \in Categories
              /\ same => dispTypes.category = dispCategory

\* a file that cannot be read, its extension in capitals, classified with a
\* twin whose extension is in small letters
C12_Witness ==
    /\ dispPc = "done"
    /\ ~dispItem.readable
    /\ Suffix(dispItem.path) = Upper(PdfSuffix)
    /\ Suffix(dispTwin) = PdfSuffix
    /\ dispCategory = "document"
    /\ dispTypes.category = "document"

\* C17: the placeholder card gives the size in MB for every size of one
\* mebibyte (1048576 bytes) or more, the boundary included, and in KB for
\* every smaller size.
C17_SizeUnitBoundary ==
    dispPc = "done" =>
        \A k \in 1..Len(dispEffect.pages) :
            (dispEffect.pages[k].kind = "card" /\ dispItem.size >= 0) =>
                dispEffect.pages[k].unit =
                    IF dispItem.size >= MiB THEN "MB" ELSE "KB"

\* C26: the placeholder tolerates a file whose size cannot be read: it still
\* produces exactly one page, the card, showing "Unknown" as the size, and
\* nothing is raised, so the item is not turned into an error page.
C26_StatErrorTolerated ==
    (/\ dispPc = "done"
     /\ dispItem.size < 0
     /\ \/ dispCategory \in { "binary", "unknown" }
        \/ dispCategory = "document" /\ ~IsPdf(dispItem)) =>
        /\ ~dispEffect.raised
        /\ Len(dispEffect.pages) = 1
        /\ dispEffect.pages[1].kind = "card"
        /\ dispEffect.pages[1].unit = "Unknown"
        /\ ~ItemStep(dispItem, HAS_OPENPYXL, errorPageFails).raised
        /\ ItemStep(dispItem, HAS_OPENPYXL, errorPageFails).pages = dispEffect.pages

\* a binary file that is not there any more was dispatched: one card
C26_Witness ==
    /\ dispPc = "done"
    /\ dispItem.size < 0
    /\ ~dispItem.readable
    /\ dispCategory = "binary"
    /\ Len(dispEffect.pages) = 1
    /\ dispEffect.pages[1].unit = "Unknown"

(***************************************************************************)
(* Properties of the tabular renderer.                                     *)
(***************************************************************************)
\* the headers of the sheets after the first, as <<page, position on the page>>
LaterHeaders ==
    { << k, i >> \in (1..Len(sheetOut)) \X (1..(RowsPerPage + 2)) :
        /\ i <= Len(sheetOut[k])
        /\ sheetOut[k][i].what = "header"
        /\ sheetOut[k][i].sheet > 1 }

\* where the cursor stands after a draw
Below(draw) == draw.y - (IF draw.what = "header" THEN HeaderStep ELSE RowStep)

\* everything drawn so far, page after page, as <<page, position>>
SheetPagesSoFar == Append(sheetCanvas.shown, sheetCanvas.open)

DrawsSoFar ==
    { d \in (1..Len(SheetPagesSoFar)) \X (1..(RowsPerPage + 2)) :
        d[2] <= Len(SheetPagesSoFar[d[1]]) }

DrawAt(d) == SheetPagesSoFar[d[1]][d[2]]

\* C24: a row line longer than the character budget is cut and gets the
\* ellipsis so that what is drawn, the marker included, is never longer than
\* the budget; a line within the budget is drawn unchanged; and the budget
\* is computed from the width of the page, so that a page twice as wide has
\* a larger budget.
C24_RowTruncation ==
    sheetPc \in { "header", "rows", "done" } =>
        \A d \in DrawsSoFar :
            DrawAt(d).what = "row" =>
                LET given == sheetIn[DrawAt(d).sheet][DrawAt(d).row]
                IN  /\ DrawAt(d).len <= RowBudgetAt(A4Width)
                    /\ given <= RowBudgetAt(A4Width) => DrawAt(d).len = given
                    /\ RowBudgetAt(2 * A4Width) > RowBudgetAt(A4Width)

\* C28: the cursor never leaves the printable area: every sheet header and
\* every row is drawn at or above the bottom margin (y >= 40), for any
\* sequence of sheets and row counts.
C28_DrawsAboveMargin ==
    \A d \in DrawsSoFar : DrawAt(d).y >= RowFloor

\* C16: in a workbook of two sheets or more a page break is forced between
\* consecutive sheets: the header of every sheet after the first is the first
\* thing on a new page, at the top, whatever space the sheet before it left.
C16_BreakBetweenSheets ==
    sheetPc = "done" =>
        \A h \in LaterHeaders :
            /\ h[2] = 1
            /\ sheetOut[h[1]][1].y = A4Height - TopOffset

\* C16 as amended: between consecutive sheets the cursor goes down by the
\* spacer, and the page is broken only when less than SheetFloor is left:
\* a later header that shares its page stands one spacer below the end of
\* the sheet before it, not lower than SheetFloor; a later header that opens
\* a page follows a page that the sheet before it, with the spacer, had used
\* up, and stands at the top or one spacer below it.
C16_SpacerBetweenSheets ==
    sheetPc = "done" =>
        \A h \in LaterHeaders :
            LET page == sheetOut[h[1]]
                head == page[h[2]]
            IN  IF h[2] > 1
                THEN /\ head.y = Below(page[h[2] - 1]) - SheetGap
                     /\ head.y >= SheetFloor
                ELSE /\ h[1] > 1
                     /\ LET before == sheetOut[h[1] - 1]
                        IN  Below(before[Len(before)]) - SheetGap < SheetFloor
                     /\ head.y \in { A4Height - TopOffset,
                                      A4Height - TopOffset - SheetGap }

\* a workbook rendered whose second sheet begins on the page of the first,
\* below its rows
C16_Witness ==
    /\ sheetPc = "done"
    /\ Len(sheetIn) >= 2
    /\ Len(sheetIn[1]) >= 1
    /\ \E h \in LaterHeaders : h[1] = 1 /\ h[2] > 1

(***************************************************************************)
(* Properties of FileManager.safe_write.                                   *)
(***************************************************************************)
\* the call returned success for a path that held a file when it began
OverwroteWithSuccess == swPc = "done" /\ swResult.ok /\ swPrev.exists

\* the backup path holds the content the file had when the call began
BackupHoldsPrevious == swBackup = OnDisk(TRUE, swPrev.content)

Logged(record) == \E k \in 1..Len(swLog) : swLog[k] = record

IsPrefix(a, b) == Len(a) <= Len(b) /\ a = SubSeq(b, 1, Len(a))

\* C29: the list a background thread of the GUI works on is the list as it
\* was when the thread was started: whatever add_files, clear_selection or
\* batch_process do while it runs, the files it has processed are the first
\* files of that list, in its order, and at its end all of them.
C29_ThreadListFrozen ==
    thrPc \in { "running", "done" } =>
        /\ IsPrefix(thrSeen, thrGiven)
        /\ thrPc = "done" => thrSeen = thrGiven

\* C30: process_files of the CLI on a list that is not empty always calls one
\* of the three processors, whatever was added, deleted and cleared before:
\* it never ends in "Unknown category.".
C30_AlwaysAProcessor ==
    /\ \A i \in 1..Len(cliFiles) : is_supported_file(cliFiles[i])
    /\ cliCalled # "Unknown category."

=============================================================================
